---- MODULE Spec2Model ----
(***************************************************************************)
(* trpc-msgpack: stripUndefined (src/src/utils.ts) and msgpackEncoder      *)
(* (src/src/encoder.ts).                                                   *)
(*                                                                         *)
(* JavaScript values live in a heap of containers with identity: a value   *)
(* is null, undefined, a primitive or a reference to a container, and a    *)
(* container is an array or a plain object.  stripUndefinedInternal is     *)
(* modelled one loop iteration at a time with an explicit call stack, so   *)
(* that reference identity, the visited set and the depth counter are the  *)
(* ones of the code.                                                       *)
(***************************************************************************)
EXTENDS Integers, Sequences, FiniteSets, TLC

\* ------------------------------------------------------------------ bounds
MaxObjs == 3        \* containers in an enumerated input graph
MaxSlots == 3       \* slots (elements and keys) in an enumerated input graph
MaxBytes == 2       \* length of an enumerated decode input

\* ------------------------------------------------------- program constants
MAX_DEPTH == 100    \* utils.ts:15
ShallowChain == 99  \* index.test.ts:100, "handles objects at exactly max depth"
DeepChain == 150    \* index.test.ts:90, "throws error when depth exceeds limit"

\* ------------------------------------------------------------------ values
Null == [t |-> "null", n |-> 0]
Undef == [t |-> "undef", n |-> 0]
Prim(k) == [t |-> "prim", n |-> k]
Ref(i) == [t |-> "ref", n |-> i]

KeyNames == <<"a", "b", "c", "d", "e", "f">>
Keys(len) == SubSeq(KeyNames, 1, len)

Arr(vals) == [kind |-> "arr", keys |-> <<>>, vals |-> vals]
Obj(keys, vals) == [kind |-> "obj", keys |-> keys, vals |-> vals]

\* typeof value === 'object' && value !== null            (utils.ts:22)
IsObject(v) == v.t = "ref"

VARIABLES
    heap,       \* the containers allocated so far, by identity (index)
    input,      \* the heap as the caller built it, before any call
    root,       \* the caller's value
    op,         \* "strip" | "encode" | "decode": the entry point in use
    pc,         \* "idle" | "strip" | "serialize" | "parse" | "returned"
    arg,        \* the argument of the stripUndefined call in progress (or last made)
    base,       \* number of containers that existed when that call was made
    stack,      \* activations of stripUndefinedInternal on a composite
    visited,    \* the call's WeakSet
    ret,        \* outcome of the last finished entry-point call
    first,      \* outcome of the first stripUndefined call, once a second is made
    wire,       \* the data given to decode, or produced by encode
    serIn,      \* values handed to the external encode()
    deserIn,    \* byte strings handed to the external decode()
    todo,       \* external encoder: values still to be written
    out,        \* external encoder: bytes written so far
    open,       \* external decoder: containers being filled
    pos         \* external decoder: next byte to read

vars == <<heap, input, root, op, pc, arg, base, stack, visited, ret, first,
          wire, serIn, deserIn, todo, out, open, pos>>

\* ------------------------------------------------------------ call results
NoRet == [kind |-> "none", v |-> Null]
Value(v) == [kind |-> "value", v |-> v]
DepthError == [kind |-> "depth", v |-> Null]
MismatchError == [kind |-> "mismatch", v |-> Null]
FormatError == [kind |-> "format", v |-> Null]
SerializeError == [kind |-> "serialize", v |-> Null]

Encoded == [kind |-> "bytes", v |-> Null]

NoWire == [type |-> "none", bytes |-> <<>>]

\* ------------------------------------------------------------- input graphs
SlotVals(n) == {Null, Undef, Prim(1)} \cup {Ref(i) : i \in 1..n}

RECURSIVE SumTo(_, _)
SumTo(lens, i) == IF i = 0 THEN 0 ELSE lens[i] + SumTo(lens, i - 1)

\* The numbers of slots of n containers.
Shapes(n) == {lens \in [1..n -> 0..MaxSlots] : SumTo(lens, n) <= MaxSlots}

\* n containers of the given kinds and sizes, their slots filled from `flat`.
Build(n, kinds, lens, flat) ==
    [i \in 1..n |->
        LET vals == [k \in 1..lens[i] |-> flat[SumTo(lens, i - 1) + k]]
        IN  IF kinds[i] = "arr" THEN Arr(vals) ELSE Obj(Keys(lens[i]), vals)]


\* Every container but the first is referenced from one with a smaller
\* identity: all of them are reachable from the root, which is container 1.
Connected(h) ==
    \A i \in 2..Len(h) : \E j \in 1..(i - 1) : \E k \in 1..Len(h[j].vals) :
        h[j].vals[k] = Ref(i)

\* h is one of the enumerated graphs.
SmallGraph(h) ==
    \E n \in 1..MaxObjs : \E lens \in Shapes(n) :
        \E kinds \in [1..n -> {"arr", "obj"}] :
            \E flat \in [1..SumTo(lens, n) -> SlotVals(n)] :
                /\ Connected(Build(n, kinds, lens, flat))
                /\ h = Build(n, kinds, lens, flat)

\* The chains of index.test.ts:87-105: `depth` containers nested below the
\* outermost one, each the only slot of its parent, ending in `leaf`.
ChainLinks(kind, next) == IF kind = "arr" THEN Arr(<<next>>) ELSE Obj(<<"a">>, <<next>>)

ChainLeaves(kind) ==
    {IF kind = "arr" THEN Arr(<<>>) ELSE Obj(<<>>, <<>>)}
    \cup {ChainLinks(kind, v) : v \in {Prim(1), Undef, Ref(1)}}

ChainHeap(kind, depth, leaf) ==
    [i \in 1..(depth + 1) |-> IF i <= depth THEN ChainLinks(kind, Ref(i + 1)) ELSE leaf]

ChainDepths == {ShallowChain, MAX_DEPTH, MAX_DEPTH + 1, DeepChain}

Chains ==
    {ChainHeap(kind, d, leaf) : kind \in {"obj"}, d \in ChainDepths, leaf \in ChainLeaves("obj")}
    \cup {ChainHeap(kind, d, leaf) : kind \in {"arr"}, d \in ChainDepths, leaf \in ChainLeaves("arr")}

\* Bytes of the MessagePack subset in use: nil, positive fixint, fixarray,
\* fixmap, fixstr of one character, and 0xc1, which the format never uses.
NilByte == 192
NeverUsedByte == 193
FixMapBase == 128
FixArrayBase == 144
FixStrOne == 161
CharCodes == <<97, 98, 99, 100, 101, 102>>

ByteAlphabet ==
    {NilByte, NeverUsedByte, 1, FixArrayBase, FixArrayBase + 1, FixMapBase, FixMapBase + 1,
     FixStrOne, CharCodes[1]}

ByteStrings == UNION {[1..len -> ByteAlphabet] : len \in 0..MaxBytes}

DecodeInputs == {[type |-> ty, bytes |-> bs] : ty \in {"string", "uint8", "arraybuffer"}, bs \in ByteStrings}

\* ---------------------------------------------------------------- initial
Init ==
    /\ \/ /\ SmallGraph(input) \/ input \in Chains
          /\ root = Ref(1)
          /\ wire = NoWire
       \/ /\ input = <<>>
          /\ root \in {Null, Undef, Prim(1)}
          /\ wire = NoWire
       \/ /\ input = <<>>
          /\ root = Null
          /\ wire \in DecodeInputs
    /\ heap = input
    /\ op = "none"
    /\ pc = "idle"
    /\ arg = Null
    /\ base = 0
    /\ stack = <<>>
    /\ visited = {}
    /\ ret = NoRet
    /\ first = NoRet
    /\ serIn = <<>>
    /\ deserIn = <<>>
    /\ todo = <<>>
    /\ out = <<>>
    /\ open = <<>>
    /\ pos = 0

\* ------------------------------------------------- stripUndefinedInternal
DepthExceeded_OffByOne(depth) == depth >= MAX_DEPTH

\* utils.ts:26
DepthExceeded(depth) == depth > MAX_DEPTH

CallOutcome_NoVisited(v, vis, depth) ==
    IF ~IsObject(v) THEN "return"
    ELSE IF DepthExceeded(depth) THEN "throw"
    ELSE "enter"

\* utils.ts:22-34: what a call of stripUndefinedInternal(v, visited, depth)
\* does before it reaches its loops.
CallOutcome(v, vis, depth) ==
    IF ~IsObject(v) THEN "return"
    ELSE IF DepthExceeded(depth) THEN "throw"
    ELSE IF v.n \in vis THEN "return"
    ELSE "enter"

Frame(id, depth) == [obj |-> id, i |-> 1, result |-> 0, depth |-> depth]

Top == stack[Len(stack)]
Cur == heap[Top.obj]
AtEnd == Top.i > Len(Cur.vals)
Item == Cur.vals[Top.i]

ArrStore_AlwaysCopies(h, f, stripped) ==
    LET vals == h[f.obj].vals
    IN  IF f.result # 0
        THEN [heap |-> [h EXCEPT ![f.result].vals = Append(@, stripped)],
              result |-> f.result]
        ELSE [heap |-> Append(h, Arr(Append(SubSeq(vals, 1, f.i - 1), stripped))),
              result |-> Len(h) + 1]

\* utils.ts:41-46: the array loop's use of the stripped element.
ArrStore(h, f, stripped) ==
    LET vals == h[f.obj].vals
    IN  IF f.result # 0
        THEN [heap |-> [h EXCEPT ![f.result].vals = Append(@, stripped)],
              result |-> f.result]
        ELSE IF stripped # vals[f.i]
        THEN [heap |-> Append(h, Arr(Append(SubSeq(vals, 1, f.i - 1), stripped))),
              result |-> Len(h) + 1]
        ELSE [heap |-> h, result |-> 0]

\* utils.ts:59-63 and 73-77: a fresh object holding the keys before the
\* current one whose value is not undefined.
ObjPrefix(o, i) ==
    LET idx == SelectSeq([j \in 1..(i - 1) |-> j], LAMBDA j : o.vals[j] # Undef)
    IN  Obj([k \in 1..Len(idx) |-> o.keys[idx[k]]], [k \in 1..Len(idx) |-> o.vals[idx[k]]])

ObjSkip_KeepsNull(h, f) ==
    LET key == h[f.obj].keys[f.i]
    IN  IF f.result = 0
        THEN LET pre == ObjPrefix(h[f.obj], f.i)
             IN  [heap |-> Append(h, Obj(Append(pre.keys, key), Append(pre.vals, Null))),
                  result |-> Len(h) + 1]
        ELSE [heap |-> [h EXCEPT ![f.result] = Obj(Append(@.keys, key), Append(@.vals, Null))],
              result |-> f.result]

ObjSkip_InPlace(h, f) ==
    LET o == h[f.obj]
        rest == SelectSeq([j \in 1..Len(o.vals) |-> j], LAMBDA j : j # f.i)
    IN  [heap |-> [h EXCEPT ![f.obj] = Obj([k \in 1..Len(rest) |-> o.keys[rest[k]]],
                                          [k \in 1..Len(rest) |-> o.vals[rest[k]]])],
         result |-> f.result]

\* utils.ts:57-66: a key whose value is undefined.
ObjSkip(h, f) ==
    IF f.result = 0
    THEN [heap |-> Append(h, ObjPrefix(h[f.obj], f.i)), result |-> Len(h) + 1]
    ELSE [heap |-> h, result |-> f.result]

\* utils.ts:70-79: the object loop's use of the stripped value.
ObjStore(h, f, stripped) ==
    LET o == h[f.obj]
        key == o.keys[f.i]
    IN  IF f.result # 0
        THEN [heap |-> [h EXCEPT ![f.result] =
                            Obj(Append(@.keys, key), Append(@.vals, stripped))],
              result |-> f.result]
        ELSE IF stripped # o.vals[f.i]
        THEN LET pre == ObjPrefix(o, f.i)
             IN  [heap |-> Append(h, Obj(Append(pre.keys, key), Append(pre.vals, stripped))),
                  result |-> Len(h) + 1]
        ELSE [heap |-> h, result |-> 0]

Store(h, f, stripped) ==
    IF h[f.obj].kind = "arr" THEN ArrStore(h, f, stripped) ELSE ObjStore(h, f, stripped)

RetVal_NoFallback(f) == IF f.result # 0 THEN Ref(f.result) ELSE Null

\* utils.ts:48 and 82: result ?? value
RetVal(f) == IF f.result # 0 THEN Ref(f.result) ELSE Ref(f.obj)

\* The frame after one loop iteration.
Advance(f, result) == [f EXCEPT !.i = @ + 1, !.result = result]

\* The outermost call, made by `entry`, is over with outcome r.  encode hands
\* a returned value on to the external encoder (encoder.ts:33); an exception
\* leaves encode too.
Finish(entry, r) ==
    /\ stack' = <<>>
    /\ visited' = {}
    /\ ret' = r
    /\ pc' = IF entry = "encode" /\ r.kind = "value" THEN "serialize" ELSE "returned"

\* utils.ts:11-13: stripUndefined(value) calls the internal function at depth 0.
Begin(entry, v) ==
    /\ arg' = v
    /\ base' = Len(heap)
    /\ LET outcome == CallOutcome(v, {}, 0)
       IN  IF outcome = "enter"
           THEN /\ visited' = {v.n}
                /\ stack' = <<Frame(v.n, 0)>>
                /\ pc' = "strip"
                /\ ret' = NoRet
           ELSE Finish(entry, IF outcome = "throw" THEN DepthError ELSE Value(v))
    /\ UNCHANGED <<heap, input, root, wire, serIn, deserIn, todo, out, open, pos>>

\* A caller strips its value.
StripCall ==
    /\ pc = "idle"
    /\ wire = NoWire
    /\ op' = "strip"
    /\ first' = first
    /\ Begin("strip", root)

\* ... and strips the result once more.
StripAgain ==
    /\ pc = "returned"
    /\ op = "strip"
    /\ first = NoRet
    /\ ret.kind = "value"
    /\ op' = op
    /\ first' = ret
    /\ Begin("strip", ret.v)

\* encoder.ts:33: encode(data) starts with stripUndefined(data).
EncodeCall ==
    /\ pc = "idle"
    /\ wire = NoWire
    /\ op' = "encode"
    /\ first' = first
    /\ Begin("encode", root)

Running == pc = "strip" /\ stack # <<>>

\* utils.ts:54-66: the object loop meets a key whose value is undefined.
IterSkip ==
    /\ Running /\ ~AtEnd
    /\ Cur.kind = "obj" /\ Item = Undef
    /\ LET s == ObjSkip(heap, Top)
       IN  /\ heap' = s.heap
           /\ stack' = [stack EXCEPT ![Len(stack)] = Advance(Top, s.result)]
    /\ UNCHANGED <<input, root, op, pc, arg, base, visited, ret, first,
                   wire, serIn, deserIn, todo, out, open, pos>>

Recursing == Running /\ ~AtEnd /\ ~(Cur.kind = "obj" /\ Item = Undef)

\* utils.ts:40 / 68, when the recursive call returns its argument at once
\* (not an object, or an object already visited), followed by 41-46 / 70-79.
IterLeaf ==
    /\ Recursing
    /\ CallOutcome(Item, visited, Top.depth + 1) = "return"
    /\ LET s == Store(heap, Top, Item)
       IN  /\ heap' = s.heap
           /\ stack' = [stack EXCEPT ![Len(stack)] = Advance(Top, s.result)]
    /\ UNCHANGED <<input, root, op, pc, arg, base, visited, ret, first,
                   wire, serIn, deserIn, todo, out, open, pos>>

\* utils.ts:40 / 68, when the recursive call enters a composite (30-34).
IterDescend ==
    /\ Recursing
    /\ CallOutcome(Item, visited, Top.depth + 1) = "enter"
    /\ visited' = visited \cup {Item.n}
    /\ stack' = Append(stack, Frame(Item.n, Top.depth + 1))
    /\ UNCHANGED <<heap, input, root, op, pc, arg, base, ret, first,
                   wire, serIn, deserIn, todo, out, open, pos>>

\* utils.ts:26-28: the recursive call throws; nothing catches the error, so
\* every activation is left and the entry point fails.
IterThrow ==
    /\ Recursing
    /\ CallOutcome(Item, visited, Top.depth + 1) = "throw"
    /\ stack' = <<>>
    /\ visited' = {}
    /\ ret' = DepthError
    /\ pc' = "returned"
    /\ UNCHANGED <<heap, input, root, op, arg, base, first,
                   wire, serIn, deserIn, todo, out, open, pos>>

\* utils.ts:48 / 82: a loop is over and the activation returns; the caller
\* uses the returned value (41-46 / 70-79) or, outermost, stripUndefined returns.
Return ==
    /\ Running /\ AtEnd
    /\ IF Len(stack) = 1
       THEN /\ Finish(op, Value(RetVal(Top)))
            /\ heap' = heap
       ELSE LET parent == stack[Len(stack) - 1]
                s == Store(heap, parent, RetVal(Top))
            IN  /\ heap' = s.heap
                /\ stack' = Append(SubSeq(stack, 1, Len(stack) - 2), Advance(parent, s.result))
                /\ UNCHANGED <<pc, ret, visited>>
    /\ UNCHANGED <<input, root, op, arg, base, first,
                   wire, serIn, deserIn, todo, out, open, pos>>

\* ------------------------------------------------------ msgpackEncoder.encode
\* encoder.ts:33: the value stripUndefined returned is handed to the external
\* encode().
SerializeArg == ret.v

TodoVal(v, depth) == [k |-> "val", v |-> v, key |-> "", depth |-> depth]
TodoKey(key, depth) == [k |-> "key", v |-> Null, key |-> key, depth |-> depth]

SerializeCall ==
    /\ pc = "serialize"
    /\ serIn' = Append(serIn, SerializeArg)
    /\ todo' = <<TodoVal(SerializeArg, 1)>>
    /\ out' = <<>>
    /\ pc' = "encoding"
    /\ UNCHANGED <<heap, input, root, op, arg, base, stack, visited, ret, first,
                   wire, deserIn, open, pos>>

\* The external encoder (@msgpack/msgpack encode), as section 6 of the
\* specification assumes it: every value is written in full, a container as
\* a header followed by its slots in order, undefined as nil.
CharCode(key) == CharCodes[CHOOSE i \in 1..Len(KeyNames) : KeyNames[i] = key]

ValueHeader(h, v) ==
    IF v.t = "ref"
    THEN (IF h[v.n].kind = "arr" THEN FixArrayBase ELSE FixMapBase) + Len(h[v.n].vals)
    ELSE IF v.t = "prim" THEN v.n
    ELSE NilByte

ValueSlots(h, v, depth) ==
    IF v.t # "ref" THEN <<>>
    ELSE LET o == h[v.n]
         IN  IF o.kind = "arr"
             THEN [j \in 1..Len(o.vals) |-> TodoVal(o.vals[j], depth + 1)]
             ELSE [j \in 1..(2 * Len(o.vals)) |->
                     IF j % 2 = 1 THEN TodoKey(o.keys[(j + 1) \div 2], depth + 1)
                     ELSE TodoVal(o.vals[j \div 2], depth + 1)]

\* A value nested deeper than there are containers lies on a cycle: its
\* encoding has no end.
Endless(item) == item.depth > Len(heap) + 1

EncodeStep ==
    /\ pc = "encoding" /\ todo # <<>>
    /\ ~Endless(Head(todo))
    /\ LET item == Head(todo)
       IN  IF item.k = "key"
           THEN /\ out' = out \o <<FixStrOne, CharCode(item.key)>>
                /\ todo' = Tail(todo)
           ELSE /\ out' = Append(out, ValueHeader(heap, item.v))
                /\ todo' = ValueSlots(heap, item.v, item.depth) \o Tail(todo)
    /\ UNCHANGED <<heap, input, root, op, pc, arg, base, stack, visited, ret, first,
                   wire, serIn, deserIn, open, pos>>

EncodeEndless ==
    /\ pc = "encoding" /\ todo # <<>>
    /\ Endless(Head(todo))
    /\ todo' = <<>>
    /\ out' = <<>>
    /\ ret' = SerializeError
    /\ pc' = "returned"
    /\ UNCHANGED <<heap, input, root, op, arg, base, stack, visited, first,
                   wire, serIn, deserIn, open, pos>>

\* encoder.ts:33: encode returns the external encoder's bytes as they are.
EncodeReturn ==
    /\ pc = "encoding" /\ todo = <<>>
    /\ wire' = [type |-> "uint8", bytes |-> out]
    /\ ret' = Encoded
    /\ pc' = "returned"
    /\ UNCHANGED <<heap, input, root, op, arg, base, stack, visited, first,
                   serIn, deserIn, todo, out, open, pos>>

\* ------------------------------------------------------ msgpackEncoder.decode
IsString_Truthy(data) == data.type = "string" /\ data.bytes # <<>>

\* encoder.ts:35
IsString(data) == data.type = "string"

\* encoder.ts:41
Normalize(data) == IF data.type = "arraybuffer" THEN [data EXCEPT !.type = "uint8"] ELSE data

\* encoder.ts:34-43, up to the call of the external decode().
DecodeCall ==
    /\ \/ pc = "idle" /\ wire # NoWire
       \/ pc = "returned" /\ op = "encode" /\ ret = Encoded
    /\ op' = "decode"
    /\ IF IsString(wire)
       THEN /\ ret' = MismatchError
            /\ pc' = "returned"
            /\ UNCHANGED <<deserIn, pos>>
       ELSE /\ deserIn' = Append(deserIn, Normalize(wire).bytes)
            /\ pos' = 1
            /\ ret' = NoRet
            /\ pc' = "decoding"
    /\ UNCHANGED <<heap, input, root, arg, base, stack, visited, first,
                   wire, serIn, todo, out, open>>

\* The external decoder (@msgpack/msgpack decode): fails on bytes that are no
\* complete encoding of one value, and otherwise builds that value from
\* fresh containers.
Bytes == deserIn[Len(deserIn)]
OpenTop == open[Len(open)]
OpenFrame(id, kind, left) == [id |-> id, kind |-> kind, left |-> left, key |-> ""]

WantsKey == open # <<>> /\ OpenTop.kind = "obj" /\ OpenTop.left > 0 /\ OpenTop.key = ""
WantsValue == IF open = <<>> THEN TRUE ELSE OpenTop.left > 0 /\ ~WantsKey

IsScalarByte(b) == b = NilByte \/ b < FixMapBase
IsArrayByte(b) == b >= FixArrayBase /\ b < FixArrayBase + 16
IsMapByte(b) == b >= FixMapBase /\ b < FixMapBase + 16
ScalarOf(b) == IF b = NilByte THEN Null ELSE Prim(b)

KeyOfCode(c) == KeyNames[CHOOSE i \in 1..Len(CharCodes) : CharCodes[i] = c]
IsKeyAt(p) ==
    /\ p + 1 <= Len(Bytes)
    /\ Bytes[p] = FixStrOne
    /\ \E i \in 1..Len(CharCodes) : CharCodes[i] = Bytes[p + 1]

\* A slot of the container being filled: result.push(v) or result[key] = v.
Fill(o, key, v) ==
    IF o.kind = "arr" THEN Arr(Append(o.vals, v))
    ELSE IF \E j \in 1..Len(o.keys) : o.keys[j] = key
    THEN Obj(o.keys, [j \in 1..Len(o.vals) |-> IF o.keys[j] = key THEN v ELSE o.vals[j]])
    ELSE Obj(Append(o.keys, key), Append(o.vals, v))

\* A value is complete: it fills a slot of the enclosing container, or it is
\* the decoded value, which must use up the input.
Deliver(h, frames, v, p) ==
    IF frames = <<>>
    THEN /\ heap' = h
         /\ open' = <<>>
         /\ pos' = p
         /\ pc' = "returned"
         /\ ret' = IF p <= Len(Bytes) THEN FormatError ELSE Value(v)
    ELSE LET f == frames[Len(frames)]
         IN  /\ heap' = [h EXCEPT ![f.id] = Fill(@, f.key, v)]
             /\ open' = [frames EXCEPT ![Len(frames)] = [f EXCEPT !.left = @ - 1, !.key = ""]]
             /\ pos' = p
             /\ UNCHANGED <<pc, ret>>

DecodeKey ==
    /\ pc = "decoding" /\ WantsKey
    /\ IsKeyAt(pos)
    /\ open' = [open EXCEPT ![Len(open)].key = KeyOfCode(Bytes[pos + 1])]
    /\ pos' = pos + 2
    /\ UNCHANGED <<heap, input, root, op, pc, arg, base, stack, visited, ret, first,
                   wire, serIn, deserIn, todo, out>>

DecodeValue ==
    /\ pc = "decoding" /\ WantsValue
    /\ pos <= Len(Bytes)
    /\ LET b == Bytes[pos]
       IN  \/ /\ IsScalarByte(b)
              /\ Deliver(heap, open, ScalarOf(b), pos + 1)
           \/ /\ IsArrayByte(b) \/ IsMapByte(b)
              /\ heap' = Append(heap, IF IsArrayByte(b) THEN Arr(<<>>) ELSE Obj(<<>>, <<>>))
              /\ open' = Append(open,
                                IF IsArrayByte(b)
                                THEN OpenFrame(Len(heap) + 1, "arr", b - FixArrayBase)
                                ELSE OpenFrame(Len(heap) + 1, "obj", b - FixMapBase))
              /\ pos' = pos + 1
              /\ UNCHANGED <<pc, ret>>
    /\ UNCHANGED <<input, root, op, arg, base, stack, visited, first,
                   wire, serIn, deserIn, todo, out>>

DecodeClose ==
    /\ pc = "decoding" /\ open # <<>> /\ OpenTop.left = 0
    /\ Deliver(heap, SubSeq(open, 1, Len(open) - 1), Ref(OpenTop.id), pos)
    /\ UNCHANGED <<input, root, op, arg, base, stack, visited, first,
                   wire, serIn, deserIn, todo, out>>

\* The input ends early, or holds a byte that starts no key or no value.
DecodeFail ==
    /\ pc = "decoding"
    /\ \/ WantsKey /\ ~IsKeyAt(pos)
       \/ WantsValue /\ pos > Len(Bytes)
       \/ /\ WantsValue /\ pos <= Len(Bytes)
          /\ ~(IsScalarByte(Bytes[pos]) \/ IsArrayByte(Bytes[pos]) \/ IsMapByte(Bytes[pos]))
    /\ open' = <<>>
    /\ ret' = FormatError
    /\ pc' = "returned"
    /\ UNCHANGED <<heap, input, root, op, arg, base, stack, visited, first,
                   wire, serIn, deserIn, todo, out, pos>>

Next ==
    \/ StripCall
    \/ StripAgain
    \/ EncodeCall
    \/ IterSkip
    \/ IterLeaf
    \/ IterDescend
    \/ IterThrow
    \/ Return
    \/ SerializeCall
    \/ EncodeStep
    \/ EncodeEndless
    \/ EncodeReturn
    \/ DecodeCall
    \/ DecodeKey
    \/ DecodeValue
    \/ DecodeClose
    \/ DecodeFail

Spec == Init /\ [][Next]_vars

\* Every call runs to its end: nothing in the code waits.
FairSpec == Spec /\ WF_vars(Next)

\* ------------------------------------------------------- graphs and shapes
\* The enumerated graphs; the chains are too deep to walk in one formula.
Small == Len(input) <= MaxObjs

RefsOf(o) == {o.vals[k].n : k \in {j \in 1..Len(o.vals) : o.vals[j].t = "ref"}}

RECURSIVE ReachFrom(_, _, _)
ReachFrom(h, frontier, seen) ==
    IF frontier = {} THEN seen
    ELSE LET next == UNION {RefsOf(h[i]) : i \in frontier}
         IN  ReachFrom(h, next \ (seen \cup frontier), seen \cup frontier)

\* The containers reachable from value v.
Reach(h, v) == IF v.t = "ref" THEN ReachFrom(h, {v.n}, {}) ELSE {}

HasAbsentEntry(o) == o.kind = "obj" /\ \E k \in 1..Len(o.vals) : o.vals[k] = Undef
HasAbsentSlot(o) == \E k \in 1..Len(o.vals) : o.vals[k] = Undef

\* No container reachable from v lies on a cycle.
Acyclic(h, v) ==
    \A i \in Reach(h, v) : i \notin UNION {Reach(h, Ref(c)) : c \in RefsOf(h[i])}

\* Slots of the containers in R that refer to container i.
InSlots(h, R, i) ==
    Cardinality(UNION {{<<j, k>> : k \in {m \in 1..Len(h[j].vals) : h[j].vals[m] = Ref(i)}} :
                       j \in R})

\* No container reachable from v is reachable by two paths.
TreeShaped(h, v) ==
    \A i \in Reach(h, v) : InSlots(h, Reach(h, v), i) = IF i = v.n THEN 0 ELSE 1

\* A tree-shaped value written out as a term.
Leaf(v) == [t |-> v.t, n |-> v.n, keys |-> <<>>, vals |-> <<>>]
Box(kind, keys, vals) == [t |-> kind, n |-> 0, keys |-> keys, vals |-> vals]

RECURSIVE Term(_, _)
Term(h, v) ==
    IF v.t # "ref" THEN Leaf(v)
    ELSE LET o == h[v.n]
         IN  Box(o.kind, o.keys, [k \in 1..Len(o.vals) |-> Term(h, o.vals[k])])

\* The reference transform on terms: a sequence keeps every slot, a mapping
\* keeps the entries whose value is not Absent, in order.
RECURSIVE Reference(_)
Reference(x) ==
    IF x.t = "arr"
    THEN Box("arr", <<>>, [k \in 1..Len(x.vals) |-> Reference(x.vals[k])])
    ELSE IF x.t = "obj"
    THEN LET kept == SelectSeq([k \in 1..Len(x.vals) |-> k], LAMBDA k : x.vals[k] # Leaf(Undef))
         IN  Box("obj", [k \in 1..Len(kept) |-> x.keys[kept[k]]],
                 [k \in 1..Len(kept) |-> Reference(x.vals[kept[k]])])
    ELSE x

\* Structural equality of two values of the heap, cycles included.
RECURSIVE Same(_, _, _, _)
Same(h, a, b, assumed) ==
    IF a.t # "ref" \/ b.t # "ref" THEN a = b
    ELSE IF <<a.n, b.n>> \in assumed THEN TRUE
    ELSE LET x == h[a.n]
             y == h[b.n]
         IN  /\ x.kind = y.kind
             /\ x.keys = y.keys
             /\ Len(x.vals) = Len(y.vals)
             /\ \A k \in 1..Len(x.vals) :
                    Same(h, x.vals[k], y.vals[k], assumed \cup {<<a.n, b.n>>})

StructEq(h, a, b) == Same(h, a, b, {})

StripReturned == pc = "returned" /\ op = "strip" /\ ret.kind = "value"

\* ------------------------------------------------------------------ C1
\* C1: whenever stripUndefined returns, no mapping reachable from the result
\* has an entry whose value is undefined.  Stated for the inputs that hold no
\* cycle, where a composite reachable twice is a shared subtree.
C1_NoAbsentEntryInResult ==
    (StripReturned /\ first = NoRet /\ Small /\ Acyclic(input, root))
        => \A i \in Reach(heap, ret.v) : ~HasAbsentEntry(heap[i])

\* ------------------------------------------------------------------ C2
\* C2: strip(strip(v)) is structurally equal to strip(v) whenever both calls
\* return.  Stated for the inputs that hold no cycle.
C2_Idempotent ==
    (StripReturned /\ first # NoRet /\ Small /\ Acyclic(input, root))
        => StructEq(heap, ret.v, first.v)

\* ------------------------------------------------------------------ C3
\* C3: on a tree-shaped argument within the depth limit stripUndefined
\* returns a value structurally equal to the reference transform of the
\* argument.
C3_MatchesReference ==
    (pc = "returned" /\ op = "strip" /\ Small /\ TreeShaped(heap, arg))
        => /\ ret.kind = "value"
           /\ TreeShaped(heap, ret.v)
           /\ Term(heap, ret.v) = Reference(Term(heap, arg))
           /\ first = NoRet => Term(heap, ret.v) = Reference(Term(input, root))

\* A tree with a kept Absent slot, a dropped Absent entry and a nested
\* mapping that is rebuilt has been stripped.
C3_Witness ==
    /\ StripReturned /\ first = NoRet /\ Small /\ TreeShaped(input, root)
    /\ input # <<>>
    /\ input[1].kind = "arr" /\ HasAbsentSlot(input[1])
    /\ \E i \in 2..Len(input) : HasAbsentEntry(input[i])
    /\ ret.v # root

\* ------------------------------------------------------------------ C4
Unchanging(h, v) == \A i \in Reach(h, v) : ~HasAbsentEntry(h[i])

\* The slot of the rebuilt container that stands for slot j of the original.
KeptAs(h, f, j) ==
    LET o == h[f.obj]
        r == h[f.result]
    IN  IF o.kind = "arr" THEN j <= Len(r.vals) /\ r.vals[j] = o.vals[j]
        ELSE \E m \in 1..Len(r.vals) : r.keys[m] = o.keys[j] /\ r.vals[m] = o.vals[j]

ChainInput == Len(input) > MaxObjs
ChainDeepest ==
    LET last == input[Len(input)]
    IN  IF last.vals # <<>> /\ last.vals[1] = Ref(1) THEN Len(input) ELSE Len(input) - 1

C5_Step ==
    \* the error is raised exactly when a composite is met below depth 100,
    \* visited or not; the child of the activation at nesting Len(stack) - 1
    \* is at depth Len(stack)
    /\ pc = "strip" =>
           (ret' = DepthError <=> (~AtEnd /\ IsObject(Item) /\ Len(stack) > MAX_DEPTH))
    /\ pc # "strip" => (ret' = DepthError => ret = DepthError)
    \* the depth counter is the nesting: 0 at the root, one more per descent
    /\ \A d \in 1..Len(stack') : stack'[d].depth = d - 1
    \* the error leaves every activation and the entry point: no value is
    \* returned and encode hands nothing to the encoder
    /\ ret' = DepthError =>
           stack' = <<>> /\ pc' = "returned" /\ (op' = "encode" => serIn' = <<>>)
    \* the chains: 99 nested mappings pass, 150 fail, the boundary is at 100
    /\ (pc' = "returned" /\ first' = NoRet /\ op' = "strip" /\ ChainInput)
           => (ret' = DepthError <=> ChainDeepest > MAX_DEPTH)

\* C5: with the root at depth 0 and one more per descent, stripUndefined
\* fails with the depth error exactly when it meets a composite, visited or
\* not, at a depth above 100; the error leaves all enclosing calls and no
\* value is returned; 99 nested mappings pass and 150 fail.
C5_DepthLimit == [][C5_Step]_vars

\* A chain of 100 nested containers whose innermost refers back to the
\* outermost: the visited composite met at depth 101 raises the error.
C5_Witness ==
    /\ pc = "returned" /\ op = "strip" /\ ret = DepthError
    /\ Len(input) = MAX_DEPTH + 1

\* ------------------------------------------------------------------ C6
C6_Step ==
    \* an activation is started only for a composite not yet visited, which
    \* is visited from then on until the call is over
    /\ Len(stack') > Len(stack) =>
           LET o == stack'[Len(stack')].obj
           IN  o \notin visited /\ o \in visited'
    /\ (pc = "strip" /\ pc' = "strip") => visited \subseteq visited'
    \* and it goes through its slots once, in order
    /\ \A d \in 1..Len(stack) :
           d <= Len(stack') =>
               /\ stack'[d].obj = stack[d].obj
               /\ stack'[d].i \in {stack[d].i, stack[d].i + 1}

\* C6: every call of stripUndefined ends, returning or raising the depth
\* error, cyclic graphs included, and within a call the children of a
\* composite are traversed at most once.
C6_Terminates ==
    /\ (pc = "strip") ~> (pc = "returned" \/ pc = "serialize")
    /\ [][C6_Step]_vars

\* A call on a graph with a cycle has returned.
C6_Witness == StripReturned /\ first = NoRet /\ Small /\ ~Acyclic(input, root)

\* ----------------------------------------------------------------- C10
\* C10: from the call of stripUndefined to its return or failure, every
\* container that existed at the call keeps its keys, order and slots.
C10_InputUntouched ==
    [][(pc = "strip" \/ pc' = "strip") =>
          /\ Len(heap') >= base'
          /\ \A i \in 1..base' : heap'[i] = heap[i]]_vars

\* A call dropped an entry in a new container; the input still has it.
C10_Witness ==
    /\ StripReturned /\ first = NoRet /\ Len(heap) > base
    /\ \E i \in 1..base : HasAbsentEntry(heap[i]) /\ heap[i] = input[i]

\* ------------------------------------------------------------------ C7
\* decode has returned the value decoded from the bytes encode produced.
RoundTripped == pc = "returned" /\ op = "decode" /\ serIn # <<>> /\ ret.kind = "value"

\* No mapping of d has a key that the mapping of v at the same place holds
\* with the value undefined.
RECURSIVE OmitsAbsentKeys(_, _, _)
OmitsAbsentKeys(h, v, d) ==
    IF v.t # "ref" \/ d.t # "ref" THEN TRUE
    ELSE LET x == h[v.n]
             y == h[d.n]
         IN  IF x.kind # y.kind THEN TRUE
             ELSE IF x.kind = "arr"
             THEN \A k \in 1..Len(x.vals) :
                      k <= Len(y.vals) => OmitsAbsentKeys(h, x.vals[k], y.vals[k])
             ELSE \A k \in 1..Len(x.vals) : \A m \in 1..Len(y.vals) :
                      y.keys[m] = x.keys[k] =>
                          /\ x.vals[k] # Undef
                          /\ OmitsAbsentKeys(h, x.vals[k], y.vals[m])

\* C7: whenever encode succeeds, decode(encode(v)) has no mapping key whose
\* value in v was undefined: the key is missing, not present with null.
C7_DecodedOmitsAbsentKeys ==
    (RoundTripped /\ Small) => OmitsAbsentKeys(heap, root, ret.v)

\* ------------------------------------------------------------------ C8
\* The caller's value is a tree without undefined anywhere.
AbsentFreeTree ==
    /\ root # Undef
    /\ \A i \in 1..Len(input) : ~HasAbsentSlot(input[i])
    /\ \A i \in 1..Len(input) : InSlots(input, 1..Len(input), i) = IF i = 1 THEN 0 ELSE 1

\* A tree of n containers nests at most n - 1 deep, as the chains do.
WithinDepth == Len(input) - 1 <= MAX_DEPTH

Shifted(o, off) ==
    [o EXCEPT !.vals = [k \in 1..Len(o.vals) |->
                           IF o.vals[k].t = "ref" THEN Ref(o.vals[k].n + off) ELSE o.vals[k]]]

\* The decoded value is structurally equal to the caller's: for a chain, the
\* decoder's containers are the caller's, one for one, in order.
DecodedEqualsRoot ==
    IF root.t # "ref" THEN ret.v = root
    ELSE IF Small THEN StructEq(heap, root, ret.v)
    ELSE /\ ret.v.t = "ref"
         /\ LET off == ret.v.n - 1
            IN  /\ Len(heap) >= off + Len(input)
                /\ \A i \in 1..Len(input) : heap[i + off] = Shifted(input[i], off)

RoundTrips ==
    /\ (pc = "returned" /\ op = "encode") => ret = Encoded
    /\ (pc = "returned" /\ op = "decode" /\ serIn # <<>>)
           => ret.kind = "value" /\ DecodedEqualsRoot

\* C8 as stated: for every value tree without Absent markers, encode and then
\* decode succeed and give a value structurally equal to it.
C8_RoundTripAnyDepth == AbsentFreeTree => RoundTrips

\* C8, amended: the same for the trees that nest no deeper than the depth
\* limit of stripUndefined.
C8_RoundTripWithinDepth == (AbsentFreeTree /\ WithinDepth) => RoundTrips

\* The chain of 100 nested containers has made the round trip.
C8_Witness ==
    /\ RoundTripped /\ AbsentFreeTree
    /\ Len(input) = MAX_DEPTH + 1

\* ------------------------------------------------------------------ C9
\* C9: decode fails with the configuration-mismatch error on every string,
\* the empty one included, without calling the external decoder; on binary
\* input it never raises that error, and hands the bytes to the external
\* decoder, whose value or failure is the outcome.
C9_DecodeTypeCheck ==
    /\ (op = "decode" /\ wire.type = "string")
           => pc = "returned" /\ ret = MismatchError /\ deserIn = <<>>
    /\ (op = "decode" /\ wire.type # "string")
           => /\ ret # MismatchError
              /\ deserIn = <<wire.bytes>>
              /\ pc = "returned" => ret.kind \in {"value", "format"}

\* The empty string was rejected.
C9_Witness ==
    /\ op = "decode" /\ pc = "returned"
    /\ wire.type = "string" /\ wire.bytes = <<>>
    /\ ret = MismatchError

====
